---- MODULE Spec2Model ----
(***************************************************************************)
(* A model of fun.py: the structural pattern matcher (_pattern_match,      *)
(* pattern), the currying wrapper (partial) and compose.                   *)
(*                                                                         *)
(* Python values are tagged records.  A call of a function whose body is   *)
(* not part of fun.py (a rule's handler, the function wrapped by partial,  *)
(* the functions given to compose) is the uninterpreted term               *)
(* Call(fn, args, kwargs): two such results are equal exactly when the     *)
(* same function was called with the same arguments.                       *)
(***************************************************************************)
EXTENDS Integers, Sequences, FiniteSets, TLC

VARIABLES
    pt,          \* _pattern_match: the pattern under test
    val,         \* _pattern_match: the value under test
    fs,          \* compose: the functions given to compose(*fs)
    patterns,    \* pattern: the closure's rule list `patterns`
    decorators,  \* pattern: the add_pattern_func closures handed out, by their `pattern`
    stages,      \* partial: the wrapper closures created by wrap(a, k); k is a dict reference
    dicts,       \* partial: the heap of keyword dicts the closures refer to
    argv,        \* the docstring's add4 scenario: the full argument list
    todo,        \* the docstring's add4 scenario: the arguments not supplied yet
    cur,         \* the docstring's add4 scenario: the stage to apply next (0: finished)
    last,        \* the last operation performed and its inputs
    ret,         \* what the last operation returned or raised
    calls        \* the calls of external functions the last operation made, in order

vars == <<pt, val, fs, patterns, decorators, stages, dicts, argv, todo, cur,
          last, ret, calls>>

-----------------------------------------------------------------------------
(* Bounds *)

MaxPatLen == 3
MaxValLen == 3
MaxFs == 3
MaxRules == 2
MaxStages == 2
MaxArgs == 1
ArgCount == 3

-----------------------------------------------------------------------------
(* Python values *)

PyInt(n) == [t |-> "int", v |-> n]
PyStr(s) == [t |-> "str", v |-> s]
PyBool(b) == [t |-> "bool", v |-> b]
PyNone == [t |-> "NoneType"]
PyEllipsis == [t |-> "ellipsis"]
PyTuple(items) == [t |-> "tuple", v |-> items]
PyList(items) == [t |-> "list", v |-> items]
PyType(name) == [t |-> "type", name |-> name]
PyFunc(name) == [t |-> "function", name |-> name]

\* eq(a): the closure eq_func over a
eq(a) == [t |-> "function", name |-> "eq_func", a |-> a]

\* the result of calling an external function
Call(fn, a, k) == [t |-> "call", fn |-> fn, args |-> a, kwargs |-> k]

\* an empty keyword mapping
NoKw == <<>>

isinstance(x, T) == T.name = "object" \/ x.t = T.name

IsSequence(x) == x.t \in {"list", "tuple"}

callable(x) == x.t \in {"function", "type"}

\* outcomes of an operation
Unset == [kind |-> "unset"]
Return(v) == [kind |-> "return", value |-> v]
Raise(exc, msg) == [kind |-> "raise", exc |-> exc, msg |-> msg]

Idle == [op |-> "none"]

SeqsUpTo(S, n) == UNION {[1..m -> S] : m \in 0..n}

-----------------------------------------------------------------------------
(* _pattern_match *)

\* eq(a)(b): return b == a
eq_func(f, b) == PyBool(b = f.a)

bool(x) == x.v

RECURSIVE pattern_match(_, _)
RECURSIVE zip_loop(_, _, _)

\* mutant: no length comparison after the loop
zip_loop_nolen(p, a, i) ==
    IF i > Len(p) \/ i > Len(a) THEN TRUE
    ELSE IF p[i] = PyEllipsis THEN TRUE
    ELSE IF ~pattern_match(p[i], a[i]) THEN FALSE
    ELSE zip_loop(p, a, i + 1)

\* mutant: the marker matches one element and the loop goes on
zip_loop_wild(p, a, i) ==
    IF i > Len(p) \/ i > Len(a) THEN Len(p) = Len(a)
    ELSE IF p[i] = PyEllipsis THEN zip_loop(p, a, i + 1)
    ELSE IF ~pattern_match(p[i], a[i]) THEN FALSE
    ELSE zip_loop(p, a, i + 1)

\* for p, a in zip(pt, args): ... ; return len(pt) == len(args)
zip_loop(p, a, i) ==
    IF i > Len(p) \/ i > Len(a) THEN Len(p) = Len(a)
    ELSE IF p[i] = PyEllipsis THEN TRUE
    ELSE IF ~pattern_match(p[i], a[i]) THEN FALSE
    ELSE zip_loop(p, a, i + 1)

pattern_match(p, a) ==
    IF IsSequence(p)
    THEN IF ~IsSequence(a) THEN FALSE ELSE zip_loop(p.v, a.v, 1)
    ELSE IF p.t = "type" THEN isinstance(a, p)
    ELSE IF callable(p) THEN bool(eq_func(p, a))
    ELSE p = PyEllipsis \/ p = a

-----------------------------------------------------------------------------
(* Inputs of the pattern-match specification *)

NestedPat == PyTuple(<<PyInt(1), PyEllipsis>>)
ItemPats == {PyInt(1), PyInt(2), PyEllipsis, PyType("int"), eq(PyInt(2)), NestedPat}
SeqPats == {PyTuple(s) : s \in SeqsUpTo(ItemPats, MaxPatLen)}
Pats == ItemPats \cup SeqPats \cup {PyList(<<PyInt(1), PyInt(2)>>)}

ElemVals == {PyInt(1), PyInt(2), PyStr("a"), PyTuple(<<PyInt(1)>>)}
SeqVals == {PyTuple(s) : s \in SeqsUpTo(ElemVals, MaxValLen)}
               \cup {PyList(s) : s \in SeqsUpTo(ElemVals, MaxValLen)}
Vals == ElemVals \cup SeqVals

InitMatch ==
    /\ pt \in Pats
    /\ val \in Vals
    /\ fs = <<>>
    /\ patterns = <<>>
    /\ decorators = {}
    /\ stages = <<>>
    /\ dicts = <<>>
    /\ argv = <<>>
    /\ todo = <<>>
    /\ cur = 0
    /\ last = Idle
    /\ ret = Unset
    /\ calls = <<>>

Match ==
    /\ last = Idle
    /\ last' = [op |-> "_pattern_match"]
    /\ ret' = Return(PyBool(pattern_match(pt, val)))
    /\ UNCHANGED <<pt, val, fs, patterns, decorators, stages, dicts, argv, todo, cur, calls>>

NextMatch == Match

SpecMatch == InitMatch /\ [][NextMatch]_vars

-----------------------------------------------------------------------------
(* Properties of _pattern_match *)

MatchDone == last.op = "_pattern_match"
Matched == ret = Return(PyBool(TRUE))

HasMarker(s) == \E i \in 1..Len(s) : s[i] = PyEllipsis

\* position (from 1) of the first catch-all marker of s
FirstMarker(s) ==
    CHOOSE i \in 1..Len(s) : s[i] = PyEllipsis /\ \A j \in 1..(i - 1) : s[j] # PyEllipsis

\* the first n elements of v match the first n items of s
PrefixMatches(s, v, n) == \A j \in 1..n : pattern_match(s[j], v[j])

\* C2: a sequence pattern p_0..p_{i-1} followed by the catch-all marker
\* matches every sequence whose first i elements match p_0..p_{i-1},
\* however many elements remain after them, none included.
C2_CatchAllAnyRemainder ==
    ( /\ MatchDone
      /\ IsSequence(pt)
      /\ HasMarker(pt.v)
      /\ FirstMarker(pt.v) = Len(pt.v)
      /\ IsSequence(val)
      /\ Len(val.v) >= Len(pt.v) - 1
      /\ PrefixMatches(pt.v, val.v, Len(pt.v) - 1) )
    => Matched

\* C3: a sequence pattern without a catch-all marker matches exactly the
\* sequences of the same length whose every element matches the item at the
\* same index.
C3_ArityExact ==
    (MatchDone /\ IsSequence(pt) /\ ~HasMarker(pt.v))
    => ( Matched <=> ( /\ IsSequence(val)
                       /\ Len(val.v) = Len(pt.v)
                       /\ PrefixMatches(pt.v, val.v, Len(pt.v)) ) )

\* (int, int) against (1, 2, 1): every compared element matches, the match fails
C3_Witness ==
    /\ MatchDone
    /\ pt = PyTuple(<<PyType("int"), PyType("int")>>)
    /\ val = PyTuple(<<PyInt(1), PyInt(2), PyInt(1)>>)
    /\ ret = Return(PyBool(FALSE))

\* C10: with the marker at index i and further items after it, a sequence of
\* more than i elements whose first i elements match the first i items
\* matches: the items after the marker and the lengths are not compared.
C10_MidMarker ==
    ( /\ MatchDone
      /\ IsSequence(pt)
      /\ HasMarker(pt.v)
      /\ FirstMarker(pt.v) < Len(pt.v)
      /\ IsSequence(val)
      /\ Len(val.v) >= FirstMarker(pt.v)
      /\ PrefixMatches(pt.v, val.v, FirstMarker(pt.v) - 1) )
    => Matched

\* (1, ..., 2) against (1, 2, "a"): the item after the marker would not match
C10_Witness ==
    /\ MatchDone
    /\ pt = PyTuple(<<PyInt(1), PyEllipsis, PyInt(2)>>)
    /\ val = PyTuple(<<PyInt(1), PyInt(2), PyStr("a")>>)
    /\ ~pattern_match(pt.v[3], val.v[3])
    /\ Matched

-----------------------------------------------------------------------------
(* pattern: the rule list, dispatch and registration *)

NoMatch == Raise("TypeError", "Non-exhaustive patterns")

RECURSIVE pattern_func_loop(_, _, _, _)

\* for p, f in patterns: if _pattern_match(p, args): ...
pattern_func_loop(rules, a, k, i) ==
    IF i > Len(rules) THEN [ret |-> NoMatch, calls |-> <<>>]
    ELSE IF pattern_match(rules[i][1], PyTuple(a))
         THEN IF callable(rules[i][2])
              THEN [ret |-> Return(Call(rules[i][2], a, k)),
                    calls |-> <<Call(rules[i][2], a, k)>>]
              ELSE [ret |-> Return(rules[i][2]), calls |-> <<>>]
         ELSE pattern_func_loop(rules, a, k, i + 1)

RECURSIVE last_match_loop(_, _, _, _)
last_match_loop(rules, a, k, i) ==
    IF i < 1 THEN [ret |-> NoMatch, calls |-> <<>>]
    ELSE IF pattern_match(rules[i][1], PyTuple(a))
         THEN pattern_func_loop(<<rules[i]>>, a, k, 1)
         ELSE last_match_loop(rules, a, k, i - 1)

\* mutant: the last matching rule wins
pattern_func_last(rules, a, k) == last_match_loop(rules, a, k, Len(rules))

\* mutant: falling off the rule list returns None
pattern_func_none(rules, a, k) ==
    LET r == pattern_func_loop(rules, a, k, 1)
    IN  IF r.ret = NoMatch THEN [ret |-> Return(PyNone), calls |-> <<>>] ELSE r

pattern_func(rules, a, k) == pattern_func_loop(rules, a, k, 1)

\* the function object pattern() returns
PatternFunc == PyFunc("pattern_func")

\* the closure add_pattern_func over `pattern`
AddPatternFuncClosure(p) == [t |-> "function", name |-> "add_pattern_func", pattern |-> p]

\* mutant: the new rule goes to the front of the list
add_pattern_func_front(rules, p, v) ==
    [patterns |-> <<(<<p, v>>)>> \o rules, ret |-> Return(PatternFunc)]

add_pattern_func(rules, p, v) ==
    [patterns |-> Append(rules, <<p, v>>), ret |-> Return(PatternFunc)]

add_pattern(rules, decs, p, v) ==
    IF v = PyNone
    THEN [patterns |-> rules,
          decorators |-> decs \cup {AddPatternFuncClosure(p)},
          ret |-> Return(AddPatternFuncClosure(p))]
    ELSE [patterns |-> add_pattern_func(rules, p, v).patterns,
          decorators |-> decs,
          ret |-> add_pattern_func(rules, p, v).ret]

(* Inputs of the matcher specification *)

RulePats == {PyTuple(<<PyInt(1)>>), PyTuple(<<PyType("int")>>), PyEllipsis}
Handlers == {PyFunc("h1"), PyFunc("h2"), PyInt(0), PyNone}
Rules == {<<p, f>> : p \in RulePats, f \in Handlers}
CallArgs == SeqsUpTo({PyInt(1), PyStr("a")}, 2)
CallKwargs == {NoKw, [x |-> PyInt(7)]}

InitMatcher ==
    /\ patterns \in SeqsUpTo(Rules, 1)
    /\ decorators = {}
    /\ pt = PyNone
    /\ val = PyNone
    /\ fs = <<>>
    /\ stages = <<>>
    /\ dicts = <<>>
    /\ argv = <<>>
    /\ todo = <<>>
    /\ cur = 0
    /\ last = Idle
    /\ ret = Unset
    /\ calls = <<>>

Dispatch ==
    \E a \in CallArgs, k \in CallKwargs :
        /\ last' = [op |-> "pattern_func", args |-> a, kwargs |-> k]
        /\ ret' = pattern_func(patterns, a, k).ret
        /\ calls' = pattern_func(patterns, a, k).calls
        /\ UNCHANGED <<pt, val, fs, patterns, decorators, stages, dicts, argv, todo, cur>>

AddPattern ==
    \E p \in RulePats, v \in Handlers :
        /\ v = PyNone \/ Len(patterns) < MaxRules
        /\ last' = [op |-> "add_pattern", pattern |-> p, value |-> v]
        /\ patterns' = add_pattern(patterns, decorators, p, v).patterns
        /\ decorators' = add_pattern(patterns, decorators, p, v).decorators
        /\ ret' = add_pattern(patterns, decorators, p, v).ret
        /\ calls' = <<>>
        /\ UNCHANGED <<pt, val, fs, stages, dicts, argv, todo, cur>>

AddPatternFunc ==
    \E d \in decorators, v \in Handlers :
        /\ Len(patterns) < MaxRules
        /\ last' = [op |-> "add_pattern_func", pattern |-> d.pattern, value |-> v]
        /\ patterns' = add_pattern_func(patterns, d.pattern, v).patterns
        /\ ret' = add_pattern_func(patterns, d.pattern, v).ret
        /\ calls' = <<>>
        /\ UNCHANGED <<pt, val, fs, decorators, stages, dicts, argv, todo, cur>>

NextMatcher == Dispatch \/ AddPattern \/ AddPatternFunc

SpecMatcher == InitMatcher /\ [][NextMatcher]_vars

-----------------------------------------------------------------------------
(* Properties of the matcher *)

DispatchDone == last.op = "pattern_func"

\* the rules whose pattern matches the arguments of the last dispatch
MatchingRules ==
    {i \in 1..Len(patterns) : pattern_match(patterns[i][1], PyTuple(last.args))}

FirstMatching == CHOOSE i \in MatchingRules : \A j \in MatchingRules : i <= j

HandlerResult(f, a, k) == IF callable(f) THEN Return(Call(f, a, k)) ELSE Return(f)

HandlerCalls(f, a, k) == IF callable(f) THEN <<Call(f, a, k)>> ELSE <<>>

Swap(rules, i, j) ==
    [n \in 1..Len(rules) |-> IF n = i THEN rules[j] ELSE IF n = j THEN rules[i] ELSE rules[n]]

\* C1: dispatch returns the result of the first rule, in insertion order,
\* whose pattern matches the arguments: the handler called with the arguments
\* when it is invocable, the handler itself otherwise; no other handler is
\* called, and with the first matching rule swapped with a later matching one
\* the result is the later rule's.
C1_FirstMatchWins ==
    (DispatchDone /\ MatchingRules # {})
    => /\ ret = HandlerResult(patterns[FirstMatching][2], last.args, last.kwargs)
       /\ calls = HandlerCalls(patterns[FirstMatching][2], last.args, last.kwargs)
       /\ \A j \in MatchingRules \ {FirstMatching} :
              pattern_func(Swap(patterns, FirstMatching, j), last.args, last.kwargs).ret
                  = HandlerResult(patterns[j][2], last.args, last.kwargs)

\* two rules match, their handlers differ, the first one's result is returned
C1_Witness ==
    /\ DispatchDone
    /\ Cardinality(MatchingRules) = 2
    /\ patterns[1][2] # patterns[2][2]
    /\ callable(patterns[2][2])
    /\ ret = HandlerResult(patterns[1][2], last.args, last.kwargs)

\* C4: dispatch with no rule, or with no rule matching the arguments, raises
\* TypeError('Non-exhaustive patterns') and calls no handler.
C4_NoMatchRaises ==
    (DispatchDone /\ MatchingRules = {}) => (ret = NoMatch /\ calls = <<>>)

\* two rules with invocable handlers, neither matches
C4_Witness ==
    /\ DispatchDone
    /\ Len(patterns) = 2
    /\ callable(patterns[1][2])
    /\ callable(patterns[2][2])
    /\ MatchingRules = {}
    /\ ret = NoMatch

\* C7: register(pattern, handler) appends the pair (pattern, handler) to the
\* rule list, keeps the earlier rules in order and returns the matcher, for
\* every handler value, None included.
C7_RegisterAppends ==
    [][ last'.op = "add_pattern"
        => /\ patterns' = Append(patterns, <<last'.pattern, last'.value>>)
           /\ ret' = Return(PatternFunc) ]_vars

\* C7 as amended: for every handler value other than None the pair is
\* appended and the matcher returned; with None nothing is appended and a
\* one-argument registration function is returned, which appends the pair
\* (None included) and returns the matcher when it is called with the handler.
C7_RegisterAppendsUnlessNone ==
    [][ /\ (last'.op = "add_pattern" /\ last'.value # PyNone)
            => /\ patterns' = Append(patterns, <<last'.pattern, last'.value>>)
               /\ ret' = Return(PatternFunc)
        /\ (last'.op = "add_pattern" /\ last'.value = PyNone)
            => /\ patterns' = patterns
               /\ ret' = Return(AddPatternFuncClosure(last'.pattern))
        /\ last'.op = "add_pattern_func"
            => /\ patterns' = Append(patterns, <<last'.pattern, last'.value>>)
               /\ ret' = Return(PatternFunc) ]_vars

\* a rule registered behind an earlier one
C7_Witness ==
    /\ last.op = "add_pattern"
    /\ last.value # PyNone
    /\ Len(patterns) = 2
    /\ patterns[2] = <<last.pattern, last.value>>
    /\ patterns[1] # patterns[2]
    /\ ret = Return(PatternFunc)

-----------------------------------------------------------------------------
(* partial: stages are the closures wrapper(a, k) made by wrap *)

\* the function wrapped by partial; it has ArgCount parameters (f.__code__.co_argcount)
F == PyFunc("f")

\* the closure wrapper over the s-th pair (a, k)
WrapperClosure(s) == [t |-> "function", name |-> "wrapper", id |-> s]

\* kw = k.copy(); kw.update(kwargs)
update(k, kwargs) ==
    [x \in DOMAIN k \cup DOMAIN kwargs |-> IF x \in DOMAIN kwargs THEN kwargs[x] ELSE k[x]]

\* wrap(a, k) with k a fresh dict: a new closure over a and over a new heap cell
wrap(st, ds, a, k) ==
    [stages |-> Append(st, [a |-> a, k |-> Len(ds) + 1]),
     dicts |-> Append(ds, k),
     ret |-> Return(WrapperClosure(Len(st) + 1)),
     calls |-> <<>>]

\* mutant: kw = k without the copy, the update is made in the stage's own dict
wrapper_nocopy(st, ds, s, args, kwargs) ==
    LET ar == st[s].a \o args
        kw == update(ds[st[s].k], kwargs)
        ds2 == [ds EXCEPT ![st[s].k] = kw]
    IN  IF Len(ar) + Cardinality(DOMAIN kw) >= ArgCount
        THEN [stages |-> st, dicts |-> ds2,
              ret |-> Return(Call(F, ar, kw)), calls |-> <<Call(F, ar, kw)>>]
        ELSE [stages |-> Append(st, [a |-> ar, k |-> st[s].k]), dicts |-> ds2,
              ret |-> Return(WrapperClosure(Len(st) + 1)), calls |-> <<>>]

\* mutant: the call is made only when the count exceeds the parameter count
wrapper_gt(st, ds, s, args, kwargs) ==
    LET ar == st[s].a \o args
        kw == update(ds[st[s].k], kwargs)
    IN  IF Len(ar) + Cardinality(DOMAIN kw) > ArgCount
        THEN [stages |-> st, dicts |-> ds,
              ret |-> Return(Call(F, ar, kw)), calls |-> <<Call(F, ar, kw)>>]
        ELSE wrap(st, ds, ar, kw)

\* mutant: ar = args + a
wrapper_prepend(st, ds, s, args, kwargs) ==
    LET ar == args \o st[s].a
        kw == update(ds[st[s].k], kwargs)
    IN  IF Len(ar) + Cardinality(DOMAIN kw) >= ArgCount
        THEN [stages |-> st, dicts |-> ds,
              ret |-> Return(Call(F, ar, kw)), calls |-> <<Call(F, ar, kw)>>]
        ELSE wrap(st, ds, ar, kw)

\* the call wrapper(*args, **kwargs) of the s-th closure
wrapper(st, ds, s, args, kwargs) ==
    LET ar == st[s].a \o args
        kw == update(ds[st[s].k], kwargs)
    IN  IF Len(ar) + Cardinality(DOMAIN kw) >= ArgCount
        THEN [stages |-> st, dicts |-> ds,
              ret |-> Return(Call(F, ar, kw)), calls |-> <<Call(F, ar, kw)>>]
        ELSE wrap(st, ds, ar, kw)

\* partial(f, *args, **kwargs): return wrap(args, kwargs)
partial(args, kwargs) == wrap(<<>>, <<>>, args, kwargs)

(* Inputs of the currying specification *)

CurryVals == {PyInt(0), PyInt(1)}
CurryArgs == SeqsUpTo(CurryVals, MaxArgs)
CurryKwargs == {NoKw, [c |-> PyInt(0)], [c |-> PyInt(1)], [c |-> PyInt(1), d |-> PyInt(1)]}

InitCurry ==
    /\ \E a \in CurryArgs, k \in CurryKwargs :
           /\ stages = partial(a, k).stages
           /\ dicts = partial(a, k).dicts
           /\ ret = partial(a, k).ret
           /\ last = [op |-> "partial", args |-> a, kwargs |-> k]
    /\ calls = <<>>
    /\ pt = PyNone
    /\ val = PyNone
    /\ fs = <<>>
    /\ patterns = <<>>
    /\ decorators = {}
    /\ argv = <<>>
    /\ todo = <<>>
    /\ cur = 0

ApplyStage ==
    \E s \in 1..Len(stages), a \in CurryArgs, k \in CurryKwargs :
        LET r == wrapper(stages, dicts, s, a, k)
        IN  /\ r.calls # <<>> \/ Len(stages) < MaxStages
            /\ last' = [op |-> "wrapper", stage |-> s, args |-> a, kwargs |-> k]
            /\ stages' = r.stages
            /\ dicts' = r.dicts
            /\ ret' = r.ret
            /\ calls' = r.calls
        /\ UNCHANGED <<pt, val, fs, patterns, decorators, argv, todo, cur>>

NextCurry == ApplyStage

SpecCurry == InitCurry /\ [][NextCurry]_vars

(* The docstring's scenario: the arguments of one call supplied in order *)
(* over a chain of applications, starting from the decorated function    *)

ChainVals == {PyInt(0), PyInt(1), PyInt(3)}

InitChain ==
    /\ argv \in [1..ArgCount -> ChainVals]
    /\ todo = argv
    /\ cur = 1
    /\ stages = partial(<<>>, NoKw).stages
    /\ dicts = partial(<<>>, NoKw).dicts
    /\ ret = partial(<<>>, NoKw).ret
    /\ last = [op |-> "partial", args |-> <<>>, kwargs |-> NoKw]
    /\ calls = <<>>
    /\ pt = PyNone
    /\ val = PyNone
    /\ fs = <<>>
    /\ patterns = <<>>
    /\ decorators = {}

\* one application of the current stage to the next n arguments; MaxStages
\* bounds the applications that supply no argument
ChainStep ==
    /\ cur # 0
    /\ \E n \in 0..Len(todo) :
        LET a == SubSeq(todo, 1, n)
            r == wrapper(stages, dicts, cur, a, NoKw)
        IN  /\ n > 0 \/ Len(stages) < MaxStages
            /\ last' = [op |-> "wrapper", stage |-> cur, args |-> a, kwargs |-> NoKw]
            /\ stages' = r.stages
            /\ dicts' = r.dicts
            /\ ret' = r.ret
            /\ calls' = r.calls
            /\ cur' = IF r.calls # <<>> THEN 0 ELSE Len(r.stages)
            /\ todo' = SubSeq(todo, n + 1, Len(todo))
    /\ UNCHANGED <<pt, val, fs, patterns, decorators, argv>>

NextChain == ChainStep

SpecChain == InitChain /\ [][NextChain]_vars

-----------------------------------------------------------------------------
(* Properties of partial *)

\* m holds the entries of k overlaid by those of new
KwIs(m, k, new) ==
    /\ DOMAIN m = DOMAIN k \cup DOMAIN new
    /\ \A x \in DOMAIN new : m[x] = new[x]
    /\ \A x \in DOMAIN k \ DOMAIN new : m[x] = k[x]

\* C5: however the n arguments of a function of n parameters are split, in
\* order, over a chain of applications, the chain ends by calling the
\* function, no call is made before, and the result is that of the direct
\* call with the n arguments.
C5_AnySplitSameResult ==
    /\ cur = 0 <=> todo = <<>>
    /\ cur = 0 => (ret = Return(Call(F, argv, NoKw)) /\ calls = <<Call(F, argv, NoKw)>>)
    /\ cur # 0 => calls = <<>>

\* the split 1+1+1 of three arguments that are not all equal
C5_Witness ==
    /\ cur = 0
    /\ Len(stages) = ArgCount
    /\ \A s \in 1..Len(stages) : Len(stages[s].a) = s - 1
    /\ argv[1] # argv[2]
    /\ ret = Return(Call(F, argv, NoKw))

\* C6: an application never changes a stage's accumulated positional
\* sequence or keyword mapping, whether it completes the call or makes a
\* further stage, and a completion passes the function the applied stage's
\* accumulated arguments and the new ones only.
C6_StagesImmutable ==
    [][ /\ \A s \in 1..Len(stages) :
              /\ s <= Len(stages')
              /\ stages'[s] = stages[s]
              /\ dicts'[stages[s].k] = dicts[stages[s].k]
        /\ (last'.op = "wrapper" /\ calls' # <<>>)
              => /\ Len(calls') = 1
                 /\ calls'[1].fn = F
                 /\ calls'[1].args = stages[last'.stage].a \o last'.args
                 /\ KwIs(calls'[1].kwargs, dicts[stages[last'.stage].k], last'.kwargs) ]_vars

\* the first stage, applied earlier with arguments that made a further
\* stage, is completed with other arguments and keywords
C6_Witness ==
    /\ last.op = "wrapper"
    /\ last.stage = 1
    /\ calls # <<>>
    /\ Len(stages) >= 2
    /\ last.kwargs # NoKw
    /\ stages[2].a # calls[1].args
    /\ dicts[stages[2].k] # NoKw
    /\ dicts[stages[2].k] # calls[1].kwargs
    /\ calls[1].args = stages[1].a \o last.args

\* C8: an application merges the accumulated positional values with the new
\* ones, in order, and the accumulated keywords with the new ones, the new
\* value winning; the function is called, with exactly the merged arguments,
\* if and only if their count reaches its parameter count; otherwise a new
\* stage holding exactly the merged arguments is returned and no call made.
C8_MergeAndThreshold ==
    [][ last'.op = "wrapper"
        => LET st == stages[last'.stage]
               ar == st.a \o last'.args
               n == Len(ar) + Cardinality(DOMAIN dicts[st.k] \cup DOMAIN last'.kwargs)
           IN  IF n >= ArgCount
               THEN /\ Len(calls') = 1
                    /\ calls'[1].fn = F
                    /\ calls'[1].args = ar
                    /\ KwIs(calls'[1].kwargs, dicts[st.k], last'.kwargs)
                    /\ ret' = Return(calls'[1])
                    /\ Len(stages') = Len(stages)
               ELSE /\ calls' = <<>>
                    /\ Len(stages') = Len(stages) + 1
                    /\ ret' = Return(WrapperClosure(Len(stages')))
                    /\ stages'[Len(stages')].a = ar
                    /\ KwIs(dicts'[stages'[Len(stages')].k], dicts[st.k], last'.kwargs) ]_vars

\* a call with more arguments than parameters, a new keyword value replacing
\* an accumulated one
C8_Witness ==
    /\ last.op = "wrapper"
    /\ calls # <<>>
    /\ Len(calls[1].args) + Cardinality(DOMAIN calls[1].kwargs) > ArgCount
    /\ \E x \in DOMAIN last.kwargs \cap DOMAIN dicts[stages[last.stage].k] :
           /\ dicts[stages[last.stage].k][x] # last.kwargs[x]
           /\ calls[1].kwargs[x] = last.kwargs[x]

-----------------------------------------------------------------------------
(* compose *)

Reverse(s) == [i \in 1..Len(s) |-> s[Len(s) + 1 - i]]

RECURSIVE composed_loop(_, _, _)

\* for fn in fs: arg = (fn(*arg),)
composed_loop(rfs, arg, i) ==
    IF i > Len(rfs) THEN arg
    ELSE composed_loop(rfs, <<Call(rfs[i], arg, NoKw)>>, i + 1)

\* compose(*fns)(*arg): fs = fs[::-1]; the loop; return arg
composed(fns, arg) == PyTuple(composed_loop(Reverse(fns), arg, 1))

ComposeFns == {PyFunc("f"), PyFunc("g"), PyFunc("h")}

InitCompose ==
    /\ fs \in SeqsUpTo(ComposeFns, MaxFs)
    /\ argv \in SeqsUpTo(ChainVals, MaxArgs)
    /\ pt = PyNone
    /\ val = PyNone
    /\ patterns = <<>>
    /\ decorators = {}
    /\ stages = <<>>
    /\ dicts = <<>>
    /\ todo = <<>>
    /\ cur = 0
    /\ last = Idle
    /\ ret = Unset
    /\ calls = <<>>

Compose ==
    /\ last = Idle
    /\ last' = [op |-> "composed"]
    /\ ret' = Return(composed(fs, argv))
    /\ UNCHANGED <<pt, val, fs, patterns, decorators, stages, dicts, argv, todo, cur, calls>>

NextCompose == Compose

SpecCompose == InitCompose /\ [][NextCompose]_vars

RECURSIVE Nested(_, _)

\* f(g(h(arg))) for fns = <<f, g, h>> and the one argument arg
Nested(fns, arg) ==
    IF Len(fns) = 1 THEN Call(fns[1], <<arg>>, NoKw)
    ELSE Call(fns[1], <<Nested(Tail(fns), arg)>>, NoKw)

\* C9: compose(f, g, h)(arg) == f(g(h(arg))): the value the composed function
\* returns is the return value of the first function.
C9_ComposeNests ==
    (last.op = "composed" /\ Len(fs) >= 1 /\ Len(argv) = 1)
    => ret = Return(Nested(fs, argv[1]))

====
